---- MODULE Spec2Model ----
(***************************************************************************)
(* A model of configparseradv: the typed accessors getvalue, getvalueiter  *)
(* and getquantity of ConfigParserAdv and the converters they dispatch to. *)
(*                                                                         *)
(* Python strings are sequences of atoms (an atom is a piece of text that  *)
(* is never cut: one character or one word), Python values are records     *)
(* tagged by their type, and a raised exception is the record Raise(e).    *)
(***************************************************************************)
EXTENDS Integers, Sequences, FiniteSets, TLC

VARIABLES store, pc, call, result, itn, probe, emitted, input

vars == <<store, pc, call, result, itn, probe, emitted, input>>

(***************************************************************************)
(* Bounds of the model.                                                    *)
(***************************************************************************)
\* longest stored value of the base option, in atoms
MaxLen == 3
\* largest index i for which an indexed option x{i} may be stored
MaxIdx == 1
\* getvalue is called with n in -MaxN .. MaxN (or without n)
MaxN == 3
\* longest converter input, in atoms
MaxTok == 4

(***************************************************************************)
(* Python values.                                                          *)
(***************************************************************************)
None == [t |-> "None"]
NotGiven == [t |-> "NotGiven"]
Str(s) == [t |-> "str", s |-> s]
PyInt(i) == [t |-> "int", i |-> i]
PyFloat(f) == [t |-> "float", f |-> f]
PyBool(b) == [t |-> "bool", b |-> b]
PyList(l) == [t |-> "list", l |-> l]
Raise(e) == [t |-> "raise", e |-> e]

IsStr(v) == v.t = "str"
IsRaise(v) == v.t = "raise"

\* the one element of a singleton set: {F(v) : v \in {e}} evaluates e once
\* and binds v to its value, as Python binds a variable
Only(S) == CHOOSE v \in S : TRUE

(***************************************************************************)
(* str methods.                                                            *)
(***************************************************************************)
Whitespace == {" "}

\* the k-th smallest element of a set of positions
Nth(P, k) == CHOOSE p \in P : Cardinality({q \in P : q < p}) = k - 1

\* str.strip(): what lies between the first and the last atom that is not
\* whitespace
Strip(s) ==
    LET keep == {i \in 1..Len(s) : s[i] \notin Whitespace}
    IN  IF keep = {} THEN <<>>
        ELSE SubSeq(s, Nth(keep, 1), Nth(keep, Cardinality(keep)))

\* str.split(sep) with a one-character sep: every occurrence cuts, empty
\* pieces are kept
SplitOn(s, sep) ==
    LET cuts == {i \in 1..Len(s) : s[i] = sep}
        from(k) == IF k = 1 THEN 1 ELSE Nth(cuts, k - 1) + 1
        to(k) == IF k = Cardinality(cuts) + 1 THEN Len(s) ELSE Nth(cuts, k) - 1
    IN  [k \in 1..(Cardinality(cuts) + 1) |-> SubSeq(s, from(k), to(k))]

\* str.split() and str.split(None): runs of whitespace cut, no empty pieces
SplitWhitespace(s) ==
    LET word(i) == s[i] \notin Whitespace
        starts == {i \in 1..Len(s) : word(i) /\ (i = 1 \/ ~word(i - 1))}
        ends == {i \in 1..Len(s) : word(i) /\ (i = Len(s) \/ ~word(i + 1))}
    IN  [k \in 1..Cardinality(starts) |->
            SubSeq(s, Nth(starts, k), Nth(ends, k))]

\* value.split(sep), sep a Python value: None or a one-character string
split(s, sep) ==
    IF sep = None THEN SplitWhitespace(s) ELSE SplitOn(s, sep.s[1])

(***************************************************************************)
(* int(text), float(text): surrounding whitespace is ignored, the rest     *)
(* must be decimal digits.  The atoms of the model spell no sign, point or *)
(* exponent, so a float is modelled by its integer value.                  *)
(***************************************************************************)
Digits == {"1", "2"}
DigitVal(c) == IF c = "1" THEN 1 ELSE 2

RECURSIVE DecimalUpTo(_, _)
DecimalUpTo(s, k) ==
    IF k = 0 THEN 0 ELSE 10 * DecimalUpTo(s, k - 1) + DigitVal(s[k])
Decimal(s) == DecimalUpTo(s, Len(s))

AllDigits(t) == t # <<>> /\ \A i \in 1..Len(t) : t[i] \in Digits
IsNumeral(s) == \A t \in {Strip(s)} : AllDigits(t)

int(s) ==
    Only({IF AllDigits(t) THEN PyInt(Decimal(t)) ELSE Raise("ValueError") :
            t \in {Strip(s)}})
float(s) ==
    Only({IF AllDigits(t) THEN PyFloat(Decimal(t)) ELSE Raise("ValueError") :
            t \in {Strip(s)}})

(***************************************************************************)
(* The external collaborators: astropy's unit parser and coordinate type,  *)
(* known to the code only through u.Unit(text) and SkyCoord(ra, dec,       *)
(* frame), and numpy's float array.                                        *)
(***************************************************************************)
UnitNames == {"m"}
FrameNames == {"icrs", "fk5"}
dimensionless_unscaled == [scale |-> 1, name |-> ""]

\* u.Unit(text): a unit name, or a bare number (a scaled dimensionless
\* unit); any other text does not parse
Unit(tok) ==
    IF Len(tok) = 1 /\ tok[1] \in UnitNames THEN [scale |-> 1, name |-> tok[1]]
    ELSE IF IsNumeral(tok) THEN [scale |-> Decimal(Strip(tok)), name |-> ""]
    ELSE Raise("ValueError")

\* float(text) * unit and np.array(texts, dtype=float) * unit
Quantity(value, unit) ==
    IF "t" \in DOMAIN unit THEN unit
    ELSE [t |-> "Quantity", value |-> value, unit |-> unit]

\* np.array(toks, dtype=float)
FloatArray(toks) ==
    IF \A i \in 1..Len(toks) : IsNumeral(toks[i])
    THEN PyList([i \in 1..Len(toks) |-> Decimal(Strip(toks[i]))])
    ELSE Raise("ValueError")

\* SkyCoord(ra, dec, frame=frame)
SkyCoord(ra, dec, frame) ==
    IF IsNumeral(ra) /\ IsNumeral(dec) /\ Len(frame) = 1 /\ frame[1] \in FrameNames
    THEN [t |-> "SkyCoord", ra |-> Decimal(ra), dec |-> Decimal(dec),
          frame |-> frame[1]]
    ELSE Raise("ValueError")

(***************************************************************************)
(* converters.py: astropy_converter.                                       *)
(***************************************************************************)
\* the "quantity" branch
quantity_of(val) ==
    LET aux == SplitWhitespace(val)
    IN  IF Len(aux) < 2
        THEN IF aux = <<>> THEN Raise("IndexError")
             ELSE IF IsRaise(float(aux[1])) THEN float(aux[1])
             ELSE Quantity(float(aux[1]), dimensionless_unscaled)
        ELSE IF Len(aux) = 2
        THEN IF IsRaise(float(aux[1])) THEN float(aux[1])
             ELSE Quantity(float(aux[1]), Unit(aux[2]))
        ELSE LET arr == FloatArray(SubSeq(aux, 1, Len(aux) - 1))
             IN  IF IsRaise(arr) THEN arr
                 ELSE Quantity(arr, Unit(aux[Len(aux)]))

\* the "skycoord" branch: ra, dec, frame = val.split(), and on ValueError
\* ra, dec = val.split() with frame 'icrs'
skycoord_of(val) ==
    LET aux == SplitWhitespace(val)
    IN  IF Len(aux) = 3 THEN SkyCoord(aux[1], aux[2], aux[3])
        ELSE IF Len(aux) = 2 THEN SkyCoord(aux[1], aux[2], <<"icrs">>)
        ELSE Raise("ValueError")

astropy_converter(val, dtype) ==
    IF dtype = <<"quantity">> THEN quantity_of(val)
    ELSE IF dtype = <<"skycoord">> THEN skycoord_of(val)
    ELSE Raise("NotImplementedError")

(***************************************************************************)
(* configparser.py: get_boolean and ConfigParserAdv.getvalue.              *)
(***************************************************************************)
TrueWords == {"1", "yes", "true", "on"}
FalseWords == {"0", "no", "false", "off"}

get_boolean(value) ==
    LET w == Strip(value)
    IN  IF Len(w) = 1 /\ w[1] \in TrueWords THEN PyBool(TRUE)
        ELSE IF Len(w) = 1 /\ w[1] \in FalseWords THEN PyBool(FALSE)
        ELSE Raise("ValueError")

\* the store's options(section) and get(section, option, fallback=...)
options(st, section) == DOMAIN st[section]
get(st, section, option, fallback) ==
    IF option \in options(st, section) THEN Str(st[section][option])
    ELSE fallback

\* f'{key}{n}'
subkey(key, n) == key \o ToString(n)

\* mutant of SingleValue: allow_global is not consulted
SingleValue_AlwaysGlobal(value, n, opts) == Str(value[1])

\* the branch len(value) == 1 of getvalue
SingleValue(value, n, opts) ==
    IF n # 0 /\ ~opts.allow_global THEN opts.fallback ELSE Str(value[1])

\* the branch value[n] of getvalue: a Python index, negative n counts from
\* the end, IndexError gives the fallback
IndexValue(value, n, opts) ==
    IF 0 <= n /\ n < Len(value) THEN Str(value[n + 1])
    ELSE IF n < 0 /\ -n <= Len(value) THEN Str(value[Len(value) + n + 1])
    ELSE opts.fallback

\* mutant of Resolve: the base option is looked up before the indexed one
Resolve_BaseFirst(st, section, key, n, opts) ==
    IF key \in options(st, section)
    THEN Only({IF Len(value) = 1 THEN SingleValue(value, n, opts)
               ELSE IndexValue(value, n, opts) :
                 value \in {split(get(st, section, key, opts.fallback).s,
                                  opts.sep)}})
    ELSE IF subkey(key, n) \in options(st, section)
    THEN get(st, section, subkey(key, n), opts.fallback)
    ELSE opts.fallback

\* "Get values": which option backs key at index n
Resolve(st, section, key, n, opts) ==
    IF subkey(key, n) \in options(st, section)
    THEN get(st, section, subkey(key, n), opts.fallback)
    ELSE IF key \in options(st, section)
    THEN Only({IF Len(value) = 1 THEN SingleValue(value, n, opts)
               ELSE IndexValue(value, n, opts) :
                 value \in {split(get(st, section, key, opts.fallback).s,
                                  opts.sep)}})
    ELSE opts.fallback

\* "Strip spaces": value.strip(), AttributeError ignored
StripValue(value) == IF IsStr(value) THEN Str(Strip(value.s)) ELSE value

\* "Convert": dtype is None, a type (bool, int, float, str) or a text tag;
\* calling a text raises TypeError, which sends it to astropy_converter
Convert(value, dtype) ==
    IF dtype = None \/ value = None THEN value
    ELSE IF dtype.t = "type"
    THEN IF dtype.name = "bool" THEN get_boolean(value.s)
         ELSE IF dtype.name = "int" THEN int(value.s)
         ELSE IF dtype.name = "float" THEN float(value.s)
         ELSE value
    ELSE astropy_converter(value.s, dtype.s)

\* getvalue(section, key, **opts), opts already holding the defaults;
\* n = int(opts['n']) raises TypeError for None
getvalue(st, section, key, opts) ==
    IF opts.n = None THEN Raise("TypeError")
    ELSE Only({Convert(stripped, opts.dtype) :
                 stripped \in {StripValue(value) :
                     value \in {Resolve(st, section, key, opts.n.i, opts)}}})

\* the defaults of getvalue's opts, updated with the caller's kwargs
Type(name) == [t |-> "type", name |-> name]
Opts(fallback, n, sep, dtype, allow_global) ==
    [fallback |-> fallback, n |-> n, sep |-> sep, dtype |-> dtype,
     allow_global |-> allow_global]

(***************************************************************************)
(* configparser.py: ConfigParserAdv.getquantity.                           *)
(***************************************************************************)
DimlessMarkers == {"dimless", "dimensionless", "nounit", "1"}

\* "Convert string to quantity", val the list val.split()
quantity_from_list(val) ==
    IF Len(val) = 1
    THEN IF IsRaise(float(val[1])) THEN float(val[1])
         ELSE Quantity(float(val[1]), dimensionless_unscaled)
    ELSE IF Len(val) = 2
    THEN IF IsRaise(float(val[1])) THEN float(val[1])
         ELSE Quantity(float(val[1]), Unit(val[2]))
    ELSE IF val = <<>> THEN Raise("IndexError")
    ELSE Only({IF IsRaise(arr) /\ "t" \notin DOMAIN unit THEN arr
               ELSE Quantity(arr, unit) :
                 unit \in {IF \E w \in DimlessMarkers :
                                 Strip(val[Len(val)]) = <<w>>
                           THEN dimensionless_unscaled
                           ELSE Unit(val[Len(val)])},
                 arr \in {FloatArray(SubSeq(val, 1, Len(val) - 1))}})

\* getquantity(section, option, fallback=...): val is a text or the
\* fallback; val + 0 raises TypeError for both, which is passed over
getquantity(st, section, option, fallback) ==
    Only({IF val = None THEN val
          ELSE IF val.s = <<>> THEN val
          ELSE quantity_from_list(SplitWhitespace(val.s)) :
            val \in {get(st, section, option, fallback)}})

(***************************************************************************)
(* converters.py: splitter_decorator, coma_splitter, intlist_converter,    *)
(* floatlist_converter, skycoord_converter.                                *)
(***************************************************************************)
\* the default of splitter_decorator's min_length
MinLength == 1

coma_splitter(val, sep) ==
    IF \E i \in 1..Len(val) : val[i] = "," THEN SplitOn(val, ",")
    ELSE IF sep = None THEN SplitWhitespace(val)
    ELSE SplitOn(val, sep.s[1])

\* list(map(dtype, aux)): the first element that does not convert raises
MapDType(dtype, aux) ==
    Only({IF \E i \in 1..Len(items) : IsRaise(items[i])
          THEN Raise("ValueError")
          ELSE PyList([i \in 1..Len(items) |-> items[i].n]) :
            items \in {[i \in 1..Len(aux) |->
                          Only({IF IsRaise(v) THEN v ELSE [t |-> "num", n |->
                                    IF dtype = "int" THEN v.i ELSE v.f] :
                                v \in {IF dtype = "int" THEN int(aux[i])
                                       ELSE float(aux[i])}})]}})

\* wrapper(val, sep=' ') of splitter_decorator(dtype, min_length) around
\* coma_splitter; sep is NotGiven when the caller passes none
wrapper(dtype, min_length, val, sep) ==
    IF val = None THEN val
    ELSE Only({IF IsRaise(aux) THEN aux
               ELSE IF min_length <= 0 /\ Len(aux.l) = 1
               THEN [t |-> dtype, n |-> aux.l[1]]
               ELSE IF Len(aux.l) < min_length THEN Raise("ValueError")
               ELSE aux :
                 aux \in {MapDType(dtype,
                            coma_splitter(val.s, IF sep = NotGiven
                                                 THEN Str(<<" ">>) ELSE sep))}})

intlist_converter(val, sep) == wrapper("int", MinLength, val, sep)
floatlist_converter(val, sep) == wrapper("float", MinLength, val, sep)

\* ra, dec, frame = val.split(): any other number of pieces is a ValueError
skycoord_converter(val) ==
    IF val = None THEN val
    ELSE Only({IF Len(aux) = 3 THEN SkyCoord(aux[1], aux[2], aux[3])
               ELSE Raise("ValueError") :
                 aux \in {SplitWhitespace(val.s)}})

(***************************************************************************)
(* The store: one section whose options are the base option x and the      *)
(* indexed options x0 .. x{MaxIdx}, each present or not.  The values are    *)
(* the texts a configuration file or set() can put there.                  *)
(***************************************************************************)
Section == "s"
Key == "x"

Texts(atoms, k) == UNION {[1..m -> atoms] : m \in 0..k}

BaseAtoms == {"1", " ", ","}
BaseValues == Texts(BaseAtoms, MaxLen)
IndexedValues == {<<>>, <<"2">>}
Indices == 0..MaxIdx

\* the section holding base (None: no option x) and indexed[i] (None: no
\* option x{i})
SectionOf(base, indexed) ==
    LET names == {Key : b \in {base} \ {None}}
                 \cup {subkey(Key, i) : i \in {j \in Indices : indexed[j] # None}}
    IN  [o \in names |->
            IF o = Key THEN base.s
            ELSE indexed[CHOOSE i \in Indices : subkey(Key, i) = o].s]

Stores ==
    {[sec \in {Section} |-> SectionOf(base, indexed)] :
        base \in {None} \cup {Str(v) : v \in BaseValues},
        indexed \in [Indices -> {None} \cup {Str(v) : v \in IndexedValues}]}

(***************************************************************************)
(* What callers pass.                                                      *)
(***************************************************************************)
Fallbacks == {None, Str(<<"f">>)}
Seps == {Str(<<" ">>), Str(<<",">>)}
DTypes == {None, Type("int")}
Ns == {None} \cup {PyInt(i) : i \in (-MaxN)..MaxN}

CallOpts ==
    {Opts(fb, n, sep, dtype, ag) :
        fb \in Fallbacks, n \in Ns, sep \in Seps, dtype \in DTypes,
        ag \in BOOLEAN}

\* getvalueiter's kwargs; a caller's n is overwritten before it is read
IterOpts == {o \in CallOpts : o.n = None}

NoCall == [op |-> "none", opts |-> None]

(***************************************************************************)
(* The accessor protocol as a state machine.                               *)
(*   pc: "idle", "returned" (a getvalue call returned or raised), and for  *)
(*       a generator of getvalueiter: "created" (not started), "test" (the *)
(*       while condition is evaluated), "body" (value is assigned),        *)
(*       "yielded" (suspended at the yield), "done", "raised"              *)
(*   itn is opts['n'], probe the value of the while condition, emitted     *)
(*   what the generator has yielded so far                                 *)
(***************************************************************************)
Init ==
    /\ store \in Stores
    /\ pc = "idle"
    /\ call = NoCall
    /\ result = None
    /\ itn = 0
    /\ probe = None
    /\ emitted = <<>>
    /\ input = None

\* mutant of GetValueCall: the resolved text is written back to the store
\* as the indexed option
GetValueCall_Caching ==
    /\ pc = "idle"
    /\ \E opts \in CallOpts :
        /\ call' = [op |-> "getvalue", opts |-> opts]
        /\ result' = getvalue(store, Section, Key, opts)
        /\ store' = IF opts.n # None /\ IsStr(getvalue(store, Section, Key, opts))
                    THEN [store EXCEPT ![Section] =
                            (subkey(Key, opts.n.i)
                                :> getvalue(store, Section, Key, opts).s) @@ @]
                    ELSE store
    /\ pc' = "returned"
    /\ itn' = 0
    /\ probe' = None
    /\ emitted' = <<>>
    /\ UNCHANGED input

\* one call of getvalue(Section, Key, **opts)
GetValueCall ==
    /\ pc = "idle"
    /\ \E opts \in CallOpts :
        /\ call' = [op |-> "getvalue", opts |-> opts]
        /\ result' = getvalue(store, Section, Key, opts)
    /\ pc' = "returned"
    /\ itn' = 0
    /\ probe' = None
    /\ emitted' = <<>>
    /\ UNCHANGED <<store, input>>

\* getvalueiter(Section, Key, **kwargs): the generator is created, none of
\* its code has run
IterStart ==
    /\ pc = "idle"
    /\ \E kwargs \in IterOpts :
        call' = [op |-> "getvalueiter", opts |-> kwargs]
    /\ pc' = "created"
    /\ result' = None
    /\ itn' = 0
    /\ probe' = None
    /\ emitted' = <<>>
    /\ UNCHANGED <<store, input>>

\* mutant of Truthy: the while condition tests "is not None"
Truthy_NotNone(value) == value # None

\* bool(value) of the while condition
Truthy(value) ==
    IF IsStr(value) THEN value.s # <<>>
    ELSE IF value.t = "int" THEN value.i # 0
    ELSE value # None

\* mutant of ProbeOpts: allow_global is left at its default, on
ProbeOpts_AllowGlobal(kwargs, n) == Opts(None, PyInt(n), kwargs.sep, None, TRUE)

\* the opts of the while condition: the caller's sep, n, allow_global off
ProbeOpts(kwargs, n) == Opts(None, PyInt(n), kwargs.sep, None, FALSE)

\* next() resumes the generator, from its start or from the yield, where
\* opts['n'] is advanced first, and evaluates the while condition
\* getvalue(*args, **opts)
IterResume ==
    /\ pc \in {"created", "yielded"}
    /\ pc' = "test"
    /\ itn' = (IF pc = "yielded" THEN itn + 1 ELSE 0)
    /\ probe' = getvalue(store, Section, Key,
                         ProbeOpts(call.opts, IF pc = "yielded" THEN itn + 1 ELSE 0))
    /\ UNCHANGED <<store, call, result, emitted, input>>

\* the while condition is true: kwargs['n'] = opts['n'] and
\* value = getvalue(*args, **kwargs)
IterCall ==
    /\ pc = "test"
    /\ ~IsRaise(probe) /\ Truthy(probe)
    /\ pc' = "body"
    /\ result' = getvalue(store, Section, Key,
                          [call.opts EXCEPT !.n = PyInt(itn)])
    /\ UNCHANGED <<store, call, itn, probe, emitted, input>>

\* yield value
IterYield ==
    /\ pc = "body"
    /\ ~IsRaise(result) /\ result # None
    /\ pc' = "yielded"
    /\ emitted' = Append(emitted, result)
    /\ UNCHANGED <<store, call, itn, probe, result, input>>

\* the while condition is false, or value is None (break): the generator
\* returns
IterStop ==
    /\ \/ pc = "test" /\ ~IsRaise(probe) /\ ~Truthy(probe)
       \/ pc = "body" /\ result = None
    /\ pc' = "done"
    /\ UNCHANGED <<store, call, itn, probe, result, emitted, input>>

\* a getvalue call raised: the exception leaves the generator
IterRaise ==
    /\ \/ pc = "test" /\ IsRaise(probe)
       \/ pc = "body" /\ IsRaise(result)
    /\ pc' = "raised"
    /\ result' = (IF pc = "test" THEN probe ELSE result)
    /\ UNCHANGED <<store, call, itn, probe, emitted, input>>

IterNext == IterResume \/ IterCall \/ IterYield \/ IterStop \/ IterRaise

\* the caller is done with the returned value, the exception or the
\* exhausted generator, and may call again
Finish ==
    /\ pc \in {"returned", "done", "raised"}
    /\ pc' = "idle"
    /\ call' = NoCall
    /\ result' = None
    /\ itn' = 0
    /\ probe' = None
    /\ emitted' = <<>>
    /\ UNCHANGED <<store, input>>

Next == GetValueCall \/ IterStart \/ IterNext \/ Finish

Spec == Init /\ [][Next]_vars

\* one generator consumed to its end: every next() that can be called is
\* called
IterateNext == IterStart \/ IterNext
LiveSpec == Init /\ [][IterateNext]_vars /\ WF_vars(IterNext)

(***************************************************************************)
(* The converters called on one text: input is the text (None: no value),  *)
(* store the section holding it as option x.                               *)
(***************************************************************************)
RECURSIVE Join(_, _)
Join(words, gaps) ==
    IF Len(words) = 1 THEN <<words[1]>>
    ELSE <<words[1]>> \o gaps[1] \o Join(Tail(words), Tail(gaps))

\* the texts of 1..k words with a gap between neighbours
Joined(words, gaps, k) ==
    UNION {{Join(w, g) : w \in [1..j -> words], g \in [1..(j - 1) -> gaps]} :
             j \in 1..k}

ListWords == {"1", "2"}
ListGaps == {<<" ">>, <<" ", " ">>, <<",">>}
ListInputs ==
    {None, Str(<<>>)} \cup {Str(v) : v \in Joined(ListWords, ListGaps, MaxTok)}
ListSeps == {NotGiven, None, Str(<<" ">>), Str(<<",">>)}

AstroWords == {"1", "2", "m", "dimless", "icrs"}
AstroGaps == {<<" ">>, <<" ", " ">>}
AstroInputs == {None} \cup {Str(v) : v \in Joined(AstroWords, AstroGaps, MaxTok)}
AstroDTypes == {Str(<<"quantity">>), Str(<<"skycoord">>)}

StoreOf(val) ==
    [sec \in {Section} |-> IF val = None THEN <<>> ELSE Key :> val.s]

InitOn(inputs) ==
    /\ input \in inputs
    /\ store = StoreOf(input)
    /\ pc = "idle"
    /\ call = NoCall
    /\ result = None
    /\ itn = 0
    /\ probe = None
    /\ emitted = <<>>

\* intlist_converter(input) and intlist_converter(input, sep=sep)
IntListCall ==
    /\ pc = "idle"
    /\ \E sep \in ListSeps :
        /\ call' = [op |-> "intlist_converter", opts |-> [sep |-> sep]]
        /\ result' = intlist_converter(input, sep)
    /\ pc' = "returned"
    /\ UNCHANGED <<store, itn, probe, emitted, input>>

\* floatlist_converter(input) and floatlist_converter(input, sep=sep)
FloatListCall ==
    /\ pc = "idle"
    /\ \E sep \in ListSeps :
        /\ call' = [op |-> "floatlist_converter", opts |-> [sep |-> sep]]
        /\ result' = floatlist_converter(input, sep)
    /\ pc' = "returned"
    /\ UNCHANGED <<store, itn, probe, emitted, input>>

ListInit == InitOn(ListInputs)
ListNext == IntListCall \/ FloatListCall \/ Finish
ListSpec == ListInit /\ [][ListNext]_vars

\* parser.getquantity(Section, Key, fallback=None)
GetQuantityCall ==
    /\ pc = "idle"
    /\ call' = [op |-> "getquantity", opts |-> [fallback |-> None]]
    /\ result' = getquantity(store, Section, Key, None)
    /\ pc' = "returned"
    /\ UNCHANGED <<store, itn, probe, emitted, input>>

\* skycoord_converter(input), as parser.getskycoord calls it on the text
SkyCoordCall ==
    /\ pc = "idle"
    /\ call' = [op |-> "skycoord_converter", opts |-> None]
    /\ result' = skycoord_converter(input)
    /\ pc' = "returned"
    /\ UNCHANGED <<store, itn, probe, emitted, input>>

\* parser.getvalue(Section, Key, dtype='quantity' or 'skycoord'), without n
\* or with n=0 and a sep that keeps the value whole
GetValueAstroCall ==
    /\ pc = "idle"
    /\ \E dtype \in AstroDTypes, n \in {None, PyInt(0)} :
        /\ call' = [op |-> "getvalue",
                    opts |-> Opts(None, n, Str(<<",">>), dtype, TRUE)]
        /\ result' = getvalue(store, Section, Key,
                              Opts(None, n, Str(<<",">>), dtype, TRUE))
    /\ pc' = "returned"
    /\ UNCHANGED <<store, itn, probe, emitted, input>>

AstroInit == InitOn(AstroInputs)
AstroNext == GetQuantityCall \/ SkyCoordCall \/ GetValueAstroCall \/ Finish
AstroSpec == AstroInit /\ [][AstroNext]_vars

(***************************************************************************)
(* Claims about getvalue.                                                  *)
(***************************************************************************)
Returned == pc = "returned" /\ call.op = "getvalue"
Indexed == Returned /\ call.opts.n # None
CallN == call.opts.n.i
HasOption(name) == name \in options(store, Section)
BaseParts == split(store[Section][Key], call.opts.sep)
\* what getvalue hands back for a resolved value: stripped, then converted
Delivered(value) == Convert(StripValue(value), call.opts.dtype)

\* C1: getvalue called without n on a section holding the base option
\* returns that option's whole string, whitespace-stripped, and does not
\* raise.
C1_NoIndexReturnsRaw ==
    (Returned /\ call.opts.n = None /\ call.opts.dtype = None /\ HasOption(Key))
        => result = Str(Strip(store[Section][Key]))

\* C2: when the indexed option key{n} exists, getvalue with that n returns
\* its value, whether or not the base option exists and whatever it holds.
C2_IndexedOptionWins ==
    (Indexed /\ HasOption(subkey(Key, CallN)))
        => /\ call.opts.dtype = None =>
                result = Str(Strip(store[Section][subkey(Key, CallN)]))
           /\ call.opts.dtype = Type("int") =>
                result = int(store[Section][subkey(Key, CallN)])

C2_Witness ==
    /\ Indexed /\ CallN = 1 /\ call.opts.dtype = None
    /\ HasOption(subkey(Key, 1)) /\ HasOption(Key)
    /\ Len(BaseParts) = 2 /\ BaseParts[2] = <<"1">>
    /\ result = Str(<<"2">>)

\* C3: with no indexed option key{n} and a base option that splits into
\* exactly one element, getvalue returns that element if n = 0 or
\* allow_global is on, and the fallback otherwise.
C3_SingleElement ==
    (Indexed /\ ~HasOption(subkey(Key, CallN)) /\ HasOption(Key)
        /\ Len(BaseParts) = 1)
        => result = IF CallN = 0 \/ call.opts.allow_global
                    THEN Delivered(Str(BaseParts[1]))
                    ELSE Delivered(call.opts.fallback)

C3_Witness ==
    /\ Indexed /\ CallN = 1 /\ ~call.opts.allow_global
    /\ ~HasOption(subkey(Key, 1)) /\ HasOption(Key)
    /\ BaseParts = <<<<"1">>>>
    /\ call.opts.fallback = Str(<<"f">>) /\ call.opts.dtype = None
    /\ result = Str(<<"f">>)

\* C4: with no indexed option key{n} and a base option that splits into two
\* or more elements, getvalue returns the element at position n when
\* 0 <= n < number of elements and the fallback for every other n, without
\* raising; with neither key{n} nor key present it returns the fallback.
C4_OutOfRangeGivesFallback ==
    (Indexed /\ ~HasOption(subkey(Key, CallN)) /\ call.opts.dtype = None)
        => /\ (HasOption(Key) /\ Len(BaseParts) >= 2) =>
                result = IF 0 <= CallN /\ CallN < Len(BaseParts)
                         THEN Str(Strip(BaseParts[CallN + 1]))
                         ELSE call.opts.fallback
           /\ ~HasOption(Key) => result = call.opts.fallback

(***************************************************************************)
(* Claims about getvalueiter.                                              *)
(***************************************************************************)
Iterating == call.op = "getvalueiter"
IdxBound == MaxIdx + MaxLen + 2

\* the resolution of index i: getvalue with allow_global off, the caller's
\* sep, no dtype and no fallback
ResolutionAt(i) ==
    getvalue(store, Section, Key,
             Opts(None, PyInt(i), call.opts.sep, None, FALSE))
\* what getvalue returns for index i with allow_global off and the
\* caller's fallback, dtype and sep
ValueAt(i) ==
    getvalue(store, Section, Key,
             Opts(call.opts.fallback, PyInt(i), call.opts.sep,
                  call.opts.dtype, FALSE))
AbsentOrEmpty(v) == v = None \/ v = Str(<<>>)
FirstAbsent ==
    CHOOSE k \in 0..IdxBound :
        AbsentOrEmpty(ResolutionAt(k))
        /\ \A j \in 0..(k - 1) : ~AbsentOrEmpty(ResolutionAt(j))

\* index i has an indexed option or an in-range element of the base option
HasEntry(i) ==
    \/ HasOption(subkey(Key, i))
    \/ HasOption(Key) /\ i < Len(BaseParts)
FirstGap ==
    CHOOSE k \in 0..IdxBound :
        ~HasEntry(k) /\ \A j \in 0..(k - 1) : HasEntry(j)

\* C5: getvalueiter emits, in index order from 0, exactly the values
\* getvalue returns for n = 0 .. k-1 with allow_global off and the caller's
\* dtype and sep, k the first index whose resolution is absent or empty;
\* nothing from k on, whatever the caller's allow_global.
C5_EmitsPrefix ==
    Iterating =>
        /\ Len(emitted) <= FirstAbsent
        /\ \A i \in 1..Len(emitted) : emitted[i] = ValueAt(i - 1)
        /\ itn = (IF pc = "yielded" THEN Len(emitted) - 1 ELSE Len(emitted))
        /\ pc = "done" => Len(emitted) = FirstAbsent
        /\ pc = "raised" =>
            /\ Len(emitted) < FirstAbsent
            /\ result = ValueAt(Len(emitted))
            /\ IsRaise(result)

\* one value from the base option, then a gap: the caller's allow_global
\* does not let the single base value stand in for index 1
C5_Witness ==
    /\ Iterating /\ pc = "done"
    /\ call.opts.allow_global
    /\ HasOption(Key) /\ ~HasOption(subkey(Key, 0)) /\ ~HasOption(subkey(Key, 1))
    /\ emitted = <<Str(<<"1">>)>>

\* index 0 is a gap: x1 exists and is never reached
C5_WitnessGap ==
    /\ Iterating /\ pc = "done"
    /\ ~HasOption(Key) /\ ~HasOption(subkey(Key, 0)) /\ HasOption(subkey(Key, 1))
    /\ store[Section][subkey(Key, 1)] # <<>>
    /\ emitted = <<>>

\* C6 as stated: the iteration ends at the first index that has neither an
\* indexed option nor an in-range element of the base option.
C6_EndsAtFirstGap ==
    (Iterating /\ pc = "done") => itn = FirstGap

\* C6 amended: a fully consumed getvalueiter terminates; its index counter
\* strictly increases and it ends at the first index whose resolution is
\* absent or empty, never later than the first index with neither an
\* indexed option nor an in-range element of the base option.
C6_Terminates ==
    /\ [](Iterating =>
            /\ itn <= FirstAbsent
            /\ FirstAbsent <= FirstGap
            /\ pc = "done" => itn = FirstAbsent)
    /\ [][(pc = "yielded" /\ pc' # "idle") => itn' = itn + 1]_vars
    /\ (pc = "created") ~> (pc \in {"done", "raised"})

\* an empty indexed option ends the iteration before the first gap
C6_Witness ==
    /\ Iterating /\ pc = "done"
    /\ itn = 1 /\ Len(emitted) = 1
    /\ HasOption(subkey(Key, 1)) /\ FirstGap = 2

\* C7: no getvalue call and no getvalueiter iteration changes the store:
\* the sections, their options and every option's string stay the same.
C7_StoreUnchanged == [][store' = store]_vars

C7_Witness ==
    /\ Iterating /\ pc = "done" /\ Len(emitted) = 2
    /\ HasOption(Key) /\ HasOption(subkey(Key, 1))

(***************************************************************************)
(* Claims about the converters.                                            *)
(***************************************************************************)
ListReturned ==
    pc = "returned" /\ call.op \in {"intlist_converter", "floatlist_converter"}
InputWords == SplitWhitespace(input.s)
Numbers(words) == PyList([i \in 1..Len(words) |-> Decimal(words[i])])

\* C8: the list converters split on commas when the text holds one, else on
\* the given separator, else (no separator given) on arbitrary whitespace:
\* a text of numbers with no comma, converted with no separator given,
\* yields the list of its numbers however many spaces lie between them.
C8_WhitespaceWhenNoSep ==
    (/\ ListReturned
     /\ input # None
     /\ call.opts.sep = NotGiven
     /\ \A i \in 1..Len(input.s) : input.s[i] # ","
     /\ InputWords # <<>>)
        => result = Numbers(InputWords)

AstroReturned(dtype) ==
    /\ pc = "returned"
    /\ input # None
    /\ \/ call.op = "getvalue" /\ call.opts.dtype = Str(<<dtype>>)
          /\ call.opts.n = PyInt(0)
       \/ call.op = (IF dtype = "quantity" THEN "getquantity"
                     ELSE "skycoord_converter")

\* the quantity the specification gives for the words of a text
QuantityOfWords(words) ==
    IF Len(words) = 1
    THEN IF IsNumeral(words[1])
         THEN Quantity(float(words[1]), dimensionless_unscaled)
         ELSE Raise("ValueError")
    ELSE IF Len(words) = 2
    THEN IF IsNumeral(words[1]) THEN Quantity(float(words[1]), Unit(words[2]))
         ELSE Raise("ValueError")
    ELSE IF FloatArray(SubSeq(words, 1, Len(words) - 1)) = Raise("ValueError")
    THEN Raise("ValueError")
    ELSE Quantity(FloatArray(SubSeq(words, 1, Len(words) - 1)),
                  IF words[Len(words)] \in {<<w>> : w \in DimlessMarkers}
                  THEN dimensionless_unscaled
                  ELSE Unit(words[Len(words)]))

\* C9: getquantity and getvalue with dtype "quantity" convert a text by its
\* number of words: one word a dimensionless number, two a number with a
\* unit, more an array whose unit is the last word, dimensionless when that
\* word is dimless, dimensionless, nounit or 1.
C9_QuantityByWordCount ==
    AstroReturned("quantity") => result = QuantityOfWords(InputWords)

\* the coordinate the specification gives for the words of a text
SkyCoordOfWords(words) ==
    IF Len(words) = 3 THEN SkyCoord(words[1], words[2], words[3])
    ELSE IF Len(words) = 2 THEN SkyCoord(words[1], words[2], <<"icrs">>)
    ELSE Raise("ValueError")

\* C10: the skycoord converter and getvalue with dtype "skycoord" build the
\* coordinate from three words (ra, dec, frame) or from two (frame icrs),
\* raise ValueError for any other number of words, and pass None through.
C10_SkyCoordByWordCount ==
    /\ AstroReturned("skycoord") => result = SkyCoordOfWords(InputWords)
    /\ (pc = "returned" /\ call.op = "skycoord_converter" /\ input = None)
          => result = None


====
